---------------------------- MODULE Spec2Model ----------------------------
(***************************************************************************)
(* Model of src/rF2MMap.py: the rF2 shared-memory reader.                  *)
(*                                                                         *)
(* The specifications share the operators translated from the code:        *)
(*   SpecCopy     one Copy-mode MMapControl, its from_buffer_copy taken    *)
(*                word by word against a simulator writing the region;     *)
(*   SpecSync     SyncData.__update_tele_indexes and __sync_player_data    *)
(*                on arbitrary scoring / telemetry frames;                 *)
(*   SpecMap      the in-place rebuild of _tele_indexes interleaved with   *)
(*                lookups from the caller's thread;                        *)
(*   Spec         the background loop SyncData.__update, a tick per step;  *)
(*   SpecLife     start() and stop() any number of times, a tick in two    *)
(*                steps;                                                   *)
(*   SpecStop     the same lifecycle, reduced, under fair scheduling;      *)
(*   SpecRebuild  __update_tele_indexes applied again and again;           *)
(*   SpecRace     __sync_player_data line by line against the setters.     *)
(***************************************************************************)
EXTENDS Integers, Sequences, FiniteSets, TLC

\* ------------------------------------------------------------- bounds
\* Words of a region's body (everything after the two version fields).
BodyWords == 2
\* Highest version number the simulator reaches in SpecCopy.
MaxVersion == 2

\* Capacity of the mVehicles arrays (128 in rF2data; scaled down here).
MAX_VEHICLES == 2

\* Highest reading of the monotonic clock, in seconds.
MaxClock == 3

INVALID_INDEX == -1
\* __update: "elif monotonic() - last_update_time > 2"
FreezeAfter == 2
\* __update: update_delay, in milliseconds, while frozen and while active
DelaySlow == 500
DelayFast == 10
\* __update: "elif reset_counter < 6" and "if reset_counter == 5"
CounterCap == 6
PauseTries == 5

\* ------------------------------------------------------------ variables
VARIABLES
    \* SpecCopy: one MMapControl in Copy mode and the simulator writing it
    mmap_instance,   \* the mapped region: version pair and body words
    sim_pos,         \* simulator: 0 idle, k in 1..BodyWords+1 inside an update
    update,          \* MMapControl.update: "None" before create(), else "copy"
    data,            \* MMapControl.data: the held snapshot ("None" before create)
    temp,            \* __buffer_copy's temp, filled in address order
    copy_pos,        \* next offset from_buffer_copy reads; -1 when no call runs
    skip_check,      \* argument of the running / last __buffer_copy call
    prev_data,       \* history: data when the last __buffer_copy call began
    last_call,       \* history: "none", "create" or "refresh" (last call ended)
    \* SyncData: the snapshots it reads and its own attributes
    scor_data,       \* dataset.scor.data
    tele_data,       \* dataset.tele.data
    tele_indexes,    \* _tele_indexes: dict mID -> telemetry slot
    override_player_index,
    player_scor_index,
    player_scor,     \* the mVehicles element held as local player scoring
    player_tele,     \* the mVehicles element held as local player telemetry
    step,            \* SpecSync: "frame", "rebuilt" or "synced"
    data_synced,     \* result of the last __sync_player_data call
    prev_index,      \* history: player_scor_index when that call began
    \* RF2SM / SyncData lifecycle and the regions the dataset maps
    access_mode,     \* RF2SM._access_mode: 0 copy, 1 direct
    updating,        \* SyncData._updating
    event,           \* SyncData._event is set
    update_thread,   \* "None", "started", "waiting" (in the loop) or "stopped"
    caller,          \* the caller's thread: "idle" or "joining" (inside stop())
    mmaps,           \* the four MMapControl of the dataset: scor, tele, ext, ffb
    scor_mmap,       \* the scoring region as the simulator last left it
    tele_mmap,       \* the telemetry region
    \* locals of SyncData.__update, and SyncData.paused
    paused,
    freezed_version,
    last_version_update,
    last_update_time,
    data_freezed,
    reset_counter,
    update_delay,
    now,             \* monotonic(), in seconds
    \* history of the running thread
    was_active,      \* this thread has left the frozen state at least once
    fail_streak,     \* failed syncs of this thread since its last success
    \* SpecMap: __update_tele_indexes taken one iteration at a time
    rebuild_pos,     \* the loop's tele_idx; -1 when no rebuild is running
    map_before,      \* history: _tele_indexes when the running rebuild began
    seen,            \* history: the caller's latest lookup since the running
                     \* rebuild began, with the dictionary it read (or none)
    \* threads and calls
    threads,         \* number of live background threads
    api,             \* history: outcome of the caller's last start() / stop()
    sync_pc,         \* __sync_player_data taken line by line: "idle", "scanned"
                     \* (scor_idx computed) or "stored" (index assigned)
    scan_idx,        \* its local scor_idx
    index_arg        \* history: argument of the last setPlayerIndex since
                     \* the last setPlayerOverride (a set: empty if there is none)

copy_vars == <<mmap_instance, sim_pos, update, data, temp, copy_pos,
               skip_check, prev_data, last_call>>

sync_vars == <<scor_data, tele_data, tele_indexes, override_player_index,
               player_scor_index, player_scor, player_tele, step, data_synced,
               prev_index>>

life_vars == <<access_mode, updating, event, update_thread, caller,
               mmaps, scor_mmap, tele_mmap>>

loop_vars == <<paused, freezed_version, last_version_update, last_update_time,
               data_freezed, reset_counter, update_delay>>

hist_vars == <<was_active, fail_streak>>

map_vars == <<rebuild_pos, map_before, seen>>

call_vars == <<threads, api, sync_pc, scan_idx, index_arg>>

vars == <<copy_vars, sync_vars, life_vars, loop_vars, hist_vars, map_vars,
          call_vars, now>>

\* The update method of the scoring accessor: "None", "copy" or "share".
\* Telemetry has the same one whenever the loop runs.
dataset_update == mmaps["scor"].update

\* ------------------------------------------------- MMapControl (Copy mode)
\* A region as the reader's struct sees it.  Body word i holds the number
\* of the simulator update that wrote it last (0: never written).
ZeroRegion ==
    [mVersionUpdateBegin |-> 0, mVersionUpdateEnd |-> 0,
     body |-> [i \in 1..BodyWords |-> 0]]

\* Offsets of the struct in address order: 0 Begin, 1 End, 2.. body words.
LastOffset == BodyWords + 1

\* One word of from_buffer_copy: offset pos of the region lands in temp.
CopyWordAt(t, region, pos) ==
    IF pos = 0
    THEN [t EXCEPT !.mVersionUpdateBegin = region.mVersionUpdateBegin]
    ELSE IF pos = 1
    THEN [t EXCEPT !.mVersionUpdateEnd = region.mVersionUpdateEnd]
    ELSE [t EXCEPT !.body[pos - 1] = region.body[pos - 1]]

\* Mutant of BufferCopy: the version check is dropped.
BufferCopyNoCheck(t, held, skip) == t

\* __buffer_copy, after temp is filled: the value self.data has afterwards.
BufferCopy(t, held, skip) ==
    IF t.mVersionUpdateEnd = t.mVersionUpdateBegin \/ skip THEN t ELSE held

\* ---------------------------------------------- MMapControl / MMapDataSet
\* The four accessors of MMapDataSet, in the order create_mmap opens them.
Accessors == <<"scor", "tele", "ext", "ffb">>
AccessorNames == {Accessors[k] : k \in 1..Len(Accessors)}

\* MMapControl.__init__.  instance is _mmap_instance ("None", "open" or
\* "closed"); data says what .data is: "None", a private "copy", or the
\* from_buffer object that aliases the "region".
NewControl ==
    [instance |-> "None", update |-> "None", buffer_sharing |-> FALSE,
     data |-> "None"]

\* __buffer_share
BufferShare(c) ==
    IF ~c.buffer_sharing
    THEN [c EXCEPT !.buffer_sharing = TRUE, !.data = "region"]
    ELSE c

\* MMapControl.create(access_mode) when platform_mmap succeeds
ControlCreate(c, mode) ==
    IF mode # 0
    THEN BufferShare([c EXCEPT !.instance = "open", !.update = "share"])
    ELSE [c EXCEPT !.instance = "open", !.update = "copy", !.data = "copy"]

\* Mutant of ControlClose: _buffer_sharing is not cleared.
ControlCloseKeepsSharing(c) ==
    [c EXCEPT !.data = "copy", !.instance = "closed", !.update = "None"]

\* MMapControl.close() of an accessor that was created
ControlClose(c) ==
    [c EXCEPT !.data = "copy", !.buffer_sharing = FALSE,
              !.instance = "closed", !.update = "None"]

\* Mutant of ModeOf: every accessor takes the caller's mode.
ModeOfCaller(a, access_mode_) == access_mode_

\* The mode create_mmap passes to accessor a: scor.create(access_mode),
\* tele.create(access_mode), ext.create(1), ffb.create(1)
ModeOf(a, access_mode_) == IF a \in {"ext", "ffb"} THEN 1 ELSE access_mode_

\* MMapDataSet.create_mmap in which the first opened accessors succeed
\* (all four when opened = 4) and the next one, if any, raises.
CreateMMap(mm, access_mode_, opened) ==
    [a \in AccessorNames |->
        IF \E k \in 1..opened : Accessors[k] = a
        THEN ControlCreate(mm[a], ModeOf(a, access_mode_))
        ELSE mm[a]]

\* MMapDataSet.close_mmap
CloseMMap(mm) == [a \in AccessorNames |-> ControlClose(mm[a])]

\* MMapDataSet.update_mmap: scor.update() and tele.update() only.  What the
\* two snapshots become is computed by Updated; the accessors themselves
\* change only if __buffer_share has not bound .data yet.
UpdateMMap(mm) ==
    [a \in AccessorNames |->
        IF a \in {"scor", "tele"} /\ mm[a].update = "share"
        THEN BufferShare(mm[a]) ELSE mm[a]]

\* ------------------------------------------------------------- SyncData
Slots == 0..(MAX_VEHICLES - 1)
\* Vehicle identifiers (mID) the simulator hands out: 0 and 1 are keys of
\* the constructor's dictionary at its smallest, 2 need not be.
IDs == 0..2

Min(a, b) == IF a < b THEN a ELSE b
Max(a, b) == IF a > b THEN a ELSE b

\* A ctypes array subscript: a negative index counts from the end.
PyIndex(i) == IF i < 0 THEN i + MAX_VEHICLES ELSE i

\* No element held yet (None).
NoVehicle == [slot |-> INVALID_INDEX, mID |-> INVALID_INDEX, mIsPlayer |-> FALSE]

\* mVehicles[i] of a snapshot, remembered with the slot it is.
ScorVehicle(sd, i) ==
    [slot |-> PyIndex(i), mID |-> sd.mVehicles[PyIndex(i)].mID,
     mIsPlayer |-> sd.mVehicles[PyIndex(i)].mIsPlayer]

TeleVehicle(td, i) ==
    [slot |-> PyIndex(i), mID |-> td.mVehicles[PyIndex(i)].mID, mIsPlayer |-> FALSE]

\* Mutant of local_scoring_index: the scan does not stop at the first hit.
RECURSIVE LastScoringIndex(_, _, _)
LastScoringIndex(scor_veh, scor_idx, found) ==
    IF scor_idx >= MAX_VEHICLES THEN found
    ELSE LastScoringIndex(scor_veh, scor_idx + 1,
                          IF scor_veh[scor_idx].mIsPlayer THEN scor_idx ELSE found)

\* local_scoring_index: the enumerate loop from scor_idx on.
RECURSIVE ScanScoring(_, _)
ScanScoring(scor_veh, scor_idx) ==
    IF scor_idx >= MAX_VEHICLES THEN INVALID_INDEX
    ELSE IF scor_veh[scor_idx].mIsPlayer THEN scor_idx
    ELSE ScanScoring(scor_veh, scor_idx + 1)

local_scoring_index_last(scor_veh) == LastScoringIndex(scor_veh, 0, INVALID_INDEX)

local_scoring_index(scor_veh) == ScanScoring(scor_veh, 0)

\* dict: d[k] = v and d.get(k, default)
DictSet(d, k, v) == [x \in (DOMAIN d) \cup {k} |-> IF x = k THEN v ELSE d[x]]
DictGet(d, k, default) == IF k \in DOMAIN d THEN d[k] ELSE default

\* SyncData.__init__: {_index: _index for _index in range(128)}
InitTeleIndexes == [i \in Slots |-> i]

\* Mutant of ZipLen: the whole array is walked, whatever mNumVehicles says.
ZipLenFull(td) == MAX_VEHICLES

\* zip(range(tele_data.mNumVehicles), tele_data.mVehicles) has this many pairs.
ZipLen(td) == Max(0, Min(td.mNumVehicles, MAX_VEHICLES))

\* Mutant of SetTeleIndex: an identifier already in the dictionary is kept.
SetTeleIndexIfNew(td, idx, tele_idx) ==
    IF td.mVehicles[tele_idx].mID \in DOMAIN idx THEN idx
    ELSE DictSet(idx, td.mVehicles[tele_idx].mID, tele_idx)

\* Mutant of SetTeleIndex: an entry found already in place is dropped.
SetTeleIndexToggle(td, idx, tele_idx) ==
    DictSet(idx, td.mVehicles[tele_idx].mID,
            IF DictGet(idx, td.mVehicles[tele_idx].mID, INVALID_INDEX) = tele_idx
            THEN INVALID_INDEX ELSE tele_idx)

\* One iteration of __update_tele_indexes: tele_indexes[veh_info.mID] = tele_idx
SetTeleIndex(td, idx, tele_idx) == DictSet(idx, td.mVehicles[tele_idx].mID, tele_idx)

\* __update_tele_indexes: the loop from tele_idx on.
RECURSIVE UpdateTeleIndexesFrom(_, _, _)
UpdateTeleIndexesFrom(td, idx, tele_idx) ==
    IF tele_idx >= ZipLen(td) THEN idx
    ELSE UpdateTeleIndexesFrom(td, SetTeleIndex(td, idx, tele_idx), tele_idx + 1)

UpdateTeleIndexes(td, idx) == UpdateTeleIndexesFrom(td, idx, 0)

\* sync_tele_index
SyncTeleIndex(idx, sd, scor_idx) ==
    DictGet(idx, sd.mVehicles[PyIndex(scor_idx)].mID, INVALID_INDEX)

\* Mutant of SyncPlayerData: the scan runs with override enabled too.
SyncPlayerDataAlwaysScan(ov, psi, ps, pt, sd, td, idx) ==
    LET scor_idx == local_scoring_index(sd.mVehicles) IN
    IF scor_idx = INVALID_INDEX
    THEN [ok |-> FALSE, player_scor_index |-> psi,
          player_scor |-> ps, player_tele |-> pt]
    ELSE [ok |-> TRUE, player_scor_index |-> scor_idx,
          player_scor |-> ScorVehicle(sd, scor_idx),
          player_tele |-> TeleVehicle(td, SyncTeleIndex(idx, sd, scor_idx))]

\* Mutant of SyncPlayerData: a failed scan clears the player data.
SyncPlayerDataClearsOnFail(ov, psi, ps, pt, sd, td, idx) ==
    LET scor_idx == local_scoring_index(sd.mVehicles) IN
    IF ~ov /\ scor_idx = INVALID_INDEX
    THEN [ok |-> FALSE, player_scor_index |-> INVALID_INDEX,
          player_scor |-> NoVehicle, player_tele |-> NoVehicle]
    ELSE LET new_index == IF ov THEN psi ELSE scor_idx IN
         [ok |-> TRUE, player_scor_index |-> new_index,
          player_scor |-> ScorVehicle(sd, new_index),
          player_tele |-> TeleVehicle(td, SyncTeleIndex(idx, sd, new_index))]

\* __sync_player_data: its return value and the attributes it leaves.
SyncPlayerData(ov, psi, ps, pt, sd, td, idx) ==
    LET scor_idx == local_scoring_index(sd.mVehicles) IN
    IF ~ov /\ scor_idx = INVALID_INDEX
    THEN [ok |-> FALSE, player_scor_index |-> psi,
          player_scor |-> ps, player_tele |-> pt]
    ELSE LET new_index == IF ov THEN psi ELSE scor_idx IN
         [ok |-> TRUE, player_scor_index |-> new_index,
          player_scor |-> ScorVehicle(sd, new_index),
          player_tele |-> TeleVehicle(td, SyncTeleIndex(idx, sd, new_index))]

\* Mutant of ClampIndex: only the lower limit is applied.
ClampIndexLow(index) == Max(index, INVALID_INDEX)

\* RF2SM.setPlayerIndex
ClampIndex(index) == Min(Max(index, INVALID_INDEX), MAX_VEHICLES - 1)

\* Frames the simulator can have published.
ScorFrames ==
    [mVersionUpdateBegin : {0}, mVersionUpdateEnd : {0},
     mVehicles : [Slots -> [mID : IDs, mIsPlayer : BOOLEAN]]]

TeleFrames ==
    [mVersionUpdateBegin : {0}, mVersionUpdateEnd : {0},
     mNumVehicles : 0..(MAX_VEHICLES + 1),
     mVehicles : [Slots -> [mID : IDs]]]

ZeroScoring ==
    [mVersionUpdateBegin |-> 0, mVersionUpdateEnd |-> 0,
     mVehicles |-> [s \in Slots |-> [mID |-> 0, mIsPlayer |-> FALSE]]]

ZeroTelemetry ==
    [mVersionUpdateBegin |-> 0, mVersionUpdateEnd |-> 0, mNumVehicles |-> 0,
     mVehicles |-> [s \in Slots |-> [mID |-> 0]]]

\* ------------------------------------------------- SyncData.__update (loop)
\* The loop's locals (and self.paused) as one record.
Locals ==
    [paused |-> paused, freezed_version |-> freezed_version,
     last_version_update |-> last_version_update,
     last_update_time |-> last_update_time, data_freezed |-> data_freezed,
     reset_counter |-> reset_counter, update_delay |-> update_delay]

\* The first lines of __update, before the loop.
EntryLocals ==
    [paused |-> FALSE, freezed_version |-> 0, last_version_update |-> 0,
     last_update_time |-> 0, data_freezed |-> TRUE, reset_counter |-> 0,
     update_delay |-> DelaySlow]

\* "if data_synced: ... elif reset_counter < 6: ..."
CountSync(lp, synced) ==
    IF synced THEN [lp EXCEPT !.reset_counter = 0, !.paused = FALSE]
    ELSE IF lp.reset_counter < CounterCap
    THEN [lp EXCEPT !.reset_counter = @ + 1,
                    !.paused = IF lp.reset_counter + 1 = PauseTries
                               THEN TRUE ELSE @]
    ELSE lp

\* Mutant of TrackVersion: the version is recorded, the time is not.
TrackVersionNoTime(lp, version_update, t) ==
    IF lp.last_version_update # version_update
    THEN [lp EXCEPT !.last_version_update = version_update]
    ELSE lp

\* "if last_version_update != version_update: ..."
TrackVersion(lp, version_update, t) ==
    IF lp.last_version_update # version_update
    THEN [lp EXCEPT !.last_version_update = version_update,
                    !.last_update_time = t]
    ELSE lp

\* Mutant of CheckFreeze: entering the frozen state does not set paused.
CheckFreezeNoPause(lp, t) ==
    IF lp.data_freezed
    THEN IF lp.freezed_version # lp.last_version_update
         THEN [lp EXCEPT !.update_delay = DelayFast, !.paused = FALSE,
                         !.data_freezed = FALSE]
         ELSE lp
    ELSE IF t - lp.last_update_time > FreezeAfter
    THEN [lp EXCEPT !.update_delay = DelaySlow, !.data_freezed = TRUE,
                    !.freezed_version = lp.last_version_update]
    ELSE lp

\* Mutant of CheckFreeze: entering the frozen state clears paused.
CheckFreezeClearsPause(lp, t) ==
    IF lp.data_freezed
    THEN IF lp.freezed_version # lp.last_version_update
         THEN [lp EXCEPT !.update_delay = DelayFast, !.paused = FALSE,
                         !.data_freezed = FALSE]
         ELSE lp
    ELSE IF t - lp.last_update_time > FreezeAfter
    THEN [lp EXCEPT !.update_delay = DelaySlow, !.paused = FALSE,
                    !.data_freezed = TRUE,
                    !.freezed_version = lp.last_version_update]
    ELSE lp

\* Mutant of CheckFreeze: leaving the frozen state keeps the slow delay.
CheckFreezeSlowResume(lp, t) ==
    IF lp.data_freezed
    THEN IF lp.freezed_version # lp.last_version_update
         THEN [lp EXCEPT !.paused = FALSE, !.data_freezed = FALSE]
         ELSE lp
    ELSE IF t - lp.last_update_time > FreezeAfter
    THEN [lp EXCEPT !.update_delay = DelaySlow, !.paused = TRUE,
                    !.data_freezed = TRUE,
                    !.freezed_version = lp.last_version_update]
    ELSE lp

\* "if data_freezed: ... elif monotonic() - last_update_time > 2: ..."
CheckFreeze(lp, t) ==
    IF lp.data_freezed
    THEN IF lp.freezed_version # lp.last_version_update
         THEN [lp EXCEPT !.update_delay = DelayFast, !.paused = FALSE,
                         !.data_freezed = FALSE]
         ELSE lp
    ELSE IF t - lp.last_update_time > FreezeAfter
    THEN [lp EXCEPT !.update_delay = DelaySlow, !.paused = TRUE,
                    !.data_freezed = TRUE,
                    !.freezed_version = lp.last_version_update]
    ELSE lp

\* MMapControl.update() of a created accessor: the value .data reads as.
\* Direct access aliases the region; copy access runs __buffer_copy.
Updated(upd, region, held) ==
    IF upd = "share" THEN region ELSE BufferCopy(region, held, FALSE)

\* MMapControl.create(access_mode): self.update(True)
Created(mode, region, held) ==
    IF mode # 0 THEN region ELSE BufferCopy(region, held, TRUE)

\* The state after RF2SM() is constructed: MMapControl.__init__ with the
\* region all zero, SyncData.__init__, no call running.  The snapshots read
\* as the all-zero struct until a frame is loaded.
Init ==
    /\ mmap_instance = ZeroRegion
    /\ sim_pos = 0
    /\ update = "None"
    /\ data = "None"
    /\ temp = ZeroRegion
    /\ copy_pos = -1
    /\ skip_check = FALSE
    /\ prev_data = "None"
    /\ last_call = "none"
    /\ scor_data = ZeroScoring
    /\ tele_data = ZeroTelemetry
    /\ tele_indexes = InitTeleIndexes
    /\ override_player_index = FALSE
    /\ player_scor_index = INVALID_INDEX
    /\ player_scor = NoVehicle
    /\ player_tele = NoVehicle
    /\ step = "frame"
    /\ data_synced = FALSE
    /\ prev_index = INVALID_INDEX
    /\ access_mode = 0
    /\ updating = FALSE
    /\ event = FALSE
    /\ update_thread = "None"
    /\ caller = "idle"
    /\ mmaps = [a \in AccessorNames |-> NewControl]
    /\ scor_mmap = ZeroScoring
    /\ tele_mmap = ZeroTelemetry
    /\ paused = FALSE
    /\ freezed_version = 0
    /\ last_version_update = 0
    /\ last_update_time = 0
    /\ data_freezed = TRUE
    /\ reset_counter = 0
    /\ update_delay = DelaySlow
    /\ now = 0
    /\ was_active = FALSE
    /\ fail_streak = 0
    /\ rebuild_pos = -1
    /\ map_before = InitTeleIndexes
    /\ seen = {}
    /\ threads = 0
    /\ api = "none"
    /\ sync_pc = "idle"
    /\ scan_idx = INVALID_INDEX
    /\ index_arg = {}

\* ---- RF2SM.setPlayerOverride(state)
SetPlayerOverride ==
    /\ step = "frame"
    /\ caller = "idle"
    /\ \E state \in BOOLEAN : override_player_index' = state
    /\ index_arg' = {}
    /\ UNCHANGED <<scor_data, tele_data, tele_indexes, player_scor_index,
                   player_scor, player_tele, step, data_synced, prev_index>>
    /\ UNCHANGED <<threads, api, sync_pc, scan_idx>>
    /\ UNCHANGED <<copy_vars, life_vars, loop_vars, hist_vars, map_vars, now>>

\* Arguments setPlayerIndex is called with: below, inside and above the
\* valid indices.
IndexArgs == (-2)..(MAX_VEHICLES + 1)

\* ---- RF2SM.setPlayerIndex(index)
SetPlayerIndex ==
    /\ step = "frame"
    /\ caller = "idle"
    /\ \E index \in IndexArgs : player_scor_index' = ClampIndex(index)
    /\ UNCHANGED <<scor_data, tele_data, tele_indexes, override_player_index,
                   player_scor, player_tele, step, data_synced, prev_index>>
    /\ UNCHANGED <<copy_vars, life_vars, loop_vars, hist_vars, map_vars,
                   call_vars, now>>

\* ---- RF2SM.setPlayerIndex(index), the argument remembered
CallSetPlayerIndex ==
    /\ step = "frame"
    /\ caller = "idle"
    /\ \E index \in IndexArgs :
           /\ player_scor_index' = ClampIndex(index)
           /\ index_arg' = {index}
    /\ UNCHANGED <<scor_data, tele_data, tele_indexes, override_player_index,
                   player_scor, player_tele, step, data_synced, prev_index>>
    /\ UNCHANGED <<threads, api, sync_pc, scan_idx>>
    /\ UNCHANGED <<copy_vars, life_vars, loop_vars, hist_vars, map_vars, now>>

\* ---- the snapshots the next rebuild and sync will read
LoadFrames ==
    /\ step = "frame"
    /\ update_thread = "None"
    /\ scor_data = ZeroScoring /\ tele_data = ZeroTelemetry
    /\ scor_data' \in ScorFrames
    /\ tele_data' \in TeleFrames
    /\ UNCHANGED <<tele_indexes, override_player_index, player_scor_index,
                   player_scor, player_tele, step, data_synced, prev_index>>
    /\ UNCHANGED <<copy_vars, life_vars, loop_vars, hist_vars, map_vars, call_vars, now>>

\* ---- self.__update_tele_indexes(self.dataset.tele.data, self._tele_indexes)
Rebuild ==
    /\ step = "frame"
    /\ update_thread = "None"
    /\ tele_indexes' = UpdateTeleIndexes(tele_data, tele_indexes)
    /\ step' = "rebuilt"
    /\ UNCHANGED <<scor_data, tele_data, override_player_index, player_scor_index,
                   player_scor, player_tele, data_synced, prev_index>>
    /\ UNCHANGED <<copy_vars, life_vars, loop_vars, hist_vars, map_vars, call_vars, now>>

\* ---- data_synced = self.__sync_player_data()
SyncPlayer ==
    /\ step = "rebuilt"
    /\ LET r == SyncPlayerData(override_player_index, player_scor_index,
                               player_scor, player_tele, scor_data, tele_data,
                               tele_indexes)
       IN /\ data_synced' = r.ok
          /\ player_scor_index' = r.player_scor_index
          /\ player_scor' = r.player_scor
          /\ player_tele' = r.player_tele
    /\ prev_index' = player_scor_index
    /\ step' = "synced"
    /\ UNCHANGED <<scor_data, tele_data, tele_indexes, override_player_index>>
    /\ UNCHANGED <<copy_vars, life_vars, loop_vars, hist_vars, map_vars, call_vars, now>>

NextSync ==
    \/ SetPlayerOverride
    \/ SetPlayerIndex
    \/ LoadFrames
    \/ Rebuild
    \/ SyncPlayer

SpecSync == Init /\ [][NextSync]_vars

\* ------------------------------------------------ the running sync loop
\* What scor.data / tele.data read as: the region itself under direct access.
ScorData == IF mmaps["scor"].data = "region" THEN scor_mmap ELSE scor_data
TeleData == IF mmaps["tele"].data = "region" THEN tele_mmap ELSE tele_data

\* ---- RF2SM.setMode(mode)
SetMode ==
    /\ caller = "idle"
    /\ \E mode \in {0, 1} : access_mode' = mode
    /\ UNCHANGED <<updating, event, update_thread, caller, mmaps,
                   scor_mmap, tele_mmap>>
    /\ UNCHANGED <<copy_vars, sync_vars, loop_vars, hist_vars, map_vars, call_vars, now>>

\* Mutant of AlreadyStarted: start() never takes the warning branch.
NeverAlreadyStarted(upd) == FALSE

\* SyncData.start: "if self._updating:"
AlreadyStarted(upd) == upd

\* Mutant of JoinReturns: stop() does not wait for the thread.
JoinReturnsAtOnce(thr) == thr # "None"

\* self._update_thread.join() returns once that thread has terminated
JoinReturns(thr) == thr = "stopped"

\* Mutant of WaitReturnsTrue: the loop does not see the stop signal.
WaitNeverTrue(ev) == FALSE

\* self._event.wait(update_delay) returns True iff the event is set
WaitReturnsTrue(ev) == ev

\* ---- RF2SM.start() / SyncData.start() on a stopped instance, every
\* region opened
Start ==
    /\ caller = "idle"
    /\ ~AlreadyStarted(updating)
    /\ updating' = TRUE
    /\ mmaps' = CreateMMap(mmaps, access_mode, Len(Accessors))
    /\ scor_data' = IF access_mode # 0 THEN scor_data
                    ELSE Created(access_mode, scor_mmap, scor_data)
    /\ tele_data' = IF access_mode # 0 THEN tele_data
                    ELSE Created(access_mode, tele_mmap, tele_data)
    /\ LET sd == Created(access_mode, scor_mmap, scor_data)
           td == Created(access_mode, tele_mmap, tele_data)
           idx == UpdateTeleIndexes(td, tele_indexes)
           r == SyncPlayerData(override_player_index, player_scor_index,
                               player_scor, player_tele, sd, td, idx)
       IN /\ tele_indexes' = idx
          /\ data_synced' = r.ok
          /\ player_scor_index' = r.player_scor_index
          /\ player_scor' = IF r.ok THEN r.player_scor
                            ELSE ScorVehicle(sd, INVALID_INDEX)
          /\ player_tele' = IF r.ok THEN r.player_tele
                            ELSE TeleVehicle(td, INVALID_INDEX)
    /\ event' = FALSE
    /\ update_thread' = "started"
    /\ threads' = threads + 1
    /\ api' = "started"
    /\ UNCHANGED <<access_mode, caller, scor_mmap, tele_mmap,
                   override_player_index, step, prev_index>>
    /\ UNCHANGED <<sync_pc, scan_idx, index_arg>>
    /\ UNCHANGED <<copy_vars, loop_vars, hist_vars, map_vars, now>>

\* ---- start() on a started instance: the warning branch
StartRejected ==
    /\ caller = "idle"
    /\ AlreadyStarted(updating)
    /\ api' = "start_rejected"
    /\ UNCHANGED <<threads, sync_pc, scan_idx, index_arg>>
    /\ UNCHANGED <<copy_vars, sync_vars, life_vars, loop_vars, hist_vars,
                   map_vars, now>>

\* ---- start() in which platform_mmap raises for one of the four regions:
\* the exception leaves start() after "self._updating = True" and the
\* accessors opened before it
StartFail ==
    /\ caller = "idle"
    /\ ~AlreadyStarted(updating)
    /\ updating' = TRUE
    /\ \E opened \in 0..(Len(Accessors) - 1) :
          /\ mmaps' = CreateMMap(mmaps, access_mode, opened)
          /\ scor_data' = IF opened >= 1 /\ access_mode = 0
                          THEN Created(access_mode, scor_mmap, scor_data)
                          ELSE scor_data
          /\ tele_data' = IF opened >= 2 /\ access_mode = 0
                          THEN Created(access_mode, tele_mmap, tele_data)
                          ELSE tele_data
    /\ api' = "start_failed"
    /\ UNCHANGED <<access_mode, event, update_thread, caller, scor_mmap,
                   tele_mmap>>
    /\ UNCHANGED <<tele_indexes, override_player_index, player_scor_index,
                   player_scor, player_tele, step, data_synced, prev_index>>
    /\ UNCHANGED <<threads, sync_pc, scan_idx, index_arg>>
    /\ UNCHANGED <<copy_vars, loop_vars, hist_vars, map_vars, now>>

\* ---- __update, the lines before the loop
LoopEnter ==
    /\ update_thread = "started"
    /\ update_thread' = "waiting"
    /\ paused' = EntryLocals.paused
    /\ freezed_version' = EntryLocals.freezed_version
    /\ last_version_update' = EntryLocals.last_version_update
    /\ last_update_time' = EntryLocals.last_update_time
    /\ data_freezed' = EntryLocals.data_freezed
    /\ reset_counter' = EntryLocals.reset_counter
    /\ update_delay' = EntryLocals.update_delay
    /\ was_active' = FALSE
    /\ fail_streak' = 0
    /\ UNCHANGED <<access_mode, updating, event, caller, mmaps,
                   scor_mmap, tele_mmap>>
    /\ UNCHANGED <<copy_vars, sync_vars, map_vars, call_vars, now>>

\* Mutant of TickResult: the failure counter is kept while frozen too.
TickResultSyncFrozen(t) ==
    LET sd == Updated(dataset_update, scor_mmap, scor_data)
        td == Updated(dataset_update, tele_mmap, tele_data)
        idx == UpdateTeleIndexes(td, tele_indexes)
        r == SyncPlayerData(override_player_index, player_scor_index,
                            player_scor, player_tele, sd, td, idx)
        lp1 == CountSync(Locals, r.ok)
        lp2 == TrackVersion(lp1, sd.mVersionUpdateEnd, t)
    IN [scor |-> sd, tele |-> td, tele_indexes |-> idx, sync |-> r,
        lp |-> CheckFreeze(lp2, t)]

\* The body of the loop on the regions as they are at time t: lines 328-367.
\* sync is __sync_player_data's result, lp the locals the pass leaves.
TickResult(t) ==
    LET sd == Updated(dataset_update, scor_mmap, scor_data)
        td == Updated(dataset_update, tele_mmap, tele_data)
        idx == UpdateTeleIndexes(td, tele_indexes)
        r == SyncPlayerData(override_player_index, player_scor_index,
                            player_scor, player_tele, sd, td, idx)
        lp1 == IF data_freezed THEN Locals ELSE CountSync(Locals, r.ok)
        lp2 == TrackVersion(lp1, sd.mVersionUpdateEnd, t)
    IN [scor |-> sd, tele |-> td, tele_indexes |-> idx, sync |-> r,
        lp |-> CheckFreeze(lp2, t)]

\* The loop body as the state change it makes: refresh, rebuild, sync,
\* counters, version tracking, freeze check.
TickBody ==
    /\ \E res \in {TickResult(now)} :
          /\ scor_data' = IF dataset_update = "share" THEN scor_data ELSE res.scor
          /\ tele_data' = IF dataset_update = "share" THEN tele_data ELSE res.tele
          /\ tele_indexes' = res.tele_indexes
          /\ IF data_freezed
             THEN UNCHANGED <<player_scor_index, player_scor, player_tele,
                              data_synced, fail_streak>>
             ELSE /\ player_scor_index' = res.sync.player_scor_index
                  /\ player_scor' = res.sync.player_scor
                  /\ player_tele' = res.sync.player_tele
                  /\ data_synced' = res.sync.ok
                  /\ fail_streak' = IF res.sync.ok THEN 0
                                    ELSE Min(fail_streak + 1, PauseTries)
          /\ paused' = res.lp.paused
          /\ freezed_version' = res.lp.freezed_version
          /\ last_version_update' = res.lp.last_version_update
          /\ last_update_time' = res.lp.last_update_time
          /\ data_freezed' = res.lp.data_freezed
          /\ reset_counter' = res.lp.reset_counter
          /\ update_delay' = res.lp.update_delay
          /\ was_active' = (was_active \/ ~res.lp.data_freezed)
    /\ mmaps' = UpdateMMap(mmaps)
    /\ UNCHANGED <<access_mode, updating, event, caller, scor_mmap, tele_mmap>>
    /\ UNCHANGED <<override_player_index, step, prev_index, copy_vars,
                   map_vars, call_vars, now>>

\* ---- one pass of "while not self._event.wait(update_delay)"
Tick ==
    /\ update_thread = "waiting"
    /\ ~WaitReturnsTrue(event)
    /\ TickBody
    /\ UNCHANGED update_thread

\* ---- the same pass in two steps: wait() returns False, then the body runs
TickBegin ==
    /\ update_thread = "waiting"
    /\ ~WaitReturnsTrue(event)
    /\ update_thread' = "ticking"
    /\ UNCHANGED <<access_mode, updating, event, caller, mmaps, scor_mmap,
                   tele_mmap>>
    /\ UNCHANGED <<copy_vars, sync_vars, loop_vars, hist_vars, map_vars,
                   call_vars, now>>

TickEnd ==
    /\ update_thread = "ticking"
    /\ TickBody
    /\ update_thread' = "waiting"

\* ---- self._event.wait() returns True: the loop and the thread end
LoopExit ==
    /\ update_thread = "waiting"
    /\ WaitReturnsTrue(event)
    /\ update_thread' = "stopped"
    /\ threads' = threads - 1
    /\ UNCHANGED <<access_mode, updating, event, caller, mmaps,
                   scor_mmap, tele_mmap>>
    /\ UNCHANGED <<api, sync_pc, scan_idx, index_arg>>
    /\ UNCHANGED <<copy_vars, sync_vars, loop_vars, hist_vars, map_vars, now>>

\* ---- SyncData.stop(): self._event.set(); self._updating = False
StopSignal ==
    /\ caller = "idle"
    /\ updating
    /\ event' = TRUE
    /\ updating' = FALSE
    /\ caller' = "joining"
    /\ UNCHANGED <<access_mode, update_thread, mmaps, scor_mmap,
                   tele_mmap>>
    /\ UNCHANGED <<copy_vars, sync_vars, loop_vars, hist_vars, map_vars,
                   call_vars, now>>

\* ---- stop() on an instance that is not started: the warning branch
StopRejected ==
    /\ caller = "idle"
    /\ ~updating
    /\ api' = "stop_rejected"
    /\ UNCHANGED <<threads, sync_pc, scan_idx, index_arg>>
    /\ UNCHANGED <<copy_vars, sync_vars, life_vars, loop_vars, hist_vars,
                   map_vars, now>>

\* ---- SyncData.stop(): self._update_thread.join() returns
StopJoin ==
    /\ caller = "joining"
    /\ JoinReturns(update_thread)
    /\ caller' = "copying"
    /\ UNCHANGED <<access_mode, updating, event, update_thread, mmaps,
                   scor_mmap, tele_mmap>>
    /\ UNCHANGED <<copy_vars, sync_vars, loop_vars, hist_vars, map_vars,
                   call_vars, now>>

\* ---- SyncData.stop() when no thread was ever created: _update_thread is
\* None and .join raises AttributeError out of stop()
StopJoinRaises ==
    /\ caller = "joining"
    /\ update_thread = "None"
    /\ caller' = "idle"
    /\ api' = "stop_raised"
    /\ UNCHANGED <<access_mode, updating, event, update_thread, mmaps,
                   scor_mmap, tele_mmap>>
    /\ UNCHANGED <<threads, sync_pc, scan_idx, index_arg>>
    /\ UNCHANGED <<copy_vars, sync_vars, loop_vars, hist_vars, map_vars, now>>

\* ---- SyncData.stop(): player_scor = copy(player_scor), and player_tele
StopCopy ==
    /\ caller = "copying"
    /\ caller' = "closing"
    /\ player_scor' = player_scor
    /\ player_tele' = player_tele
    /\ UNCHANGED <<scor_data, tele_data, tele_indexes, override_player_index,
                   player_scor_index, step, data_synced, prev_index>>
    /\ UNCHANGED <<access_mode, updating, event, update_thread, mmaps,
                   scor_mmap, tele_mmap>>
    /\ UNCHANGED <<copy_vars, loop_vars, hist_vars, map_vars, call_vars, now>>

\* ---- SyncData.stop(): self.dataset.close_mmap(), and stop() returns
StopClose ==
    /\ caller = "closing"
    /\ scor_data' = ScorData
    /\ tele_data' = TeleData
    /\ mmaps' = CloseMMap(mmaps)
    /\ caller' = "idle"
    /\ api' = "stopped"
    /\ UNCHANGED <<access_mode, updating, event, update_thread, scor_mmap,
                   tele_mmap>>
    /\ UNCHANGED <<tele_indexes, override_player_index, player_scor_index,
                   player_scor, player_tele, step, data_synced, prev_index>>
    /\ UNCHANGED <<threads, sync_pc, scan_idx, index_arg>>
    /\ UNCHANGED <<copy_vars, loop_vars, hist_vars, map_vars, now>>

\* ---- the simulator updates the scoring region: Begin+1, body, End := Begin
SimScoringBegin ==
    /\ scor_mmap.mVersionUpdateBegin = scor_mmap.mVersionUpdateEnd
    /\ scor_mmap.mVersionUpdateBegin < MaxVersion
    /\ scor_mmap' = [scor_mmap EXCEPT !.mVersionUpdateBegin = @ + 1]
    /\ UNCHANGED <<access_mode, updating, event, update_thread, caller,
                   mmaps, tele_mmap>>
    /\ UNCHANGED <<copy_vars, sync_vars, loop_vars, hist_vars, map_vars, call_vars, now>>

SimScoringWrite ==
    /\ scor_mmap.mVersionUpdateBegin # scor_mmap.mVersionUpdateEnd
    /\ \E s \in Slots, flag \in BOOLEAN :
           scor_mmap' = [scor_mmap EXCEPT !.mVehicles[s].mIsPlayer = flag]
    /\ UNCHANGED <<access_mode, updating, event, update_thread, caller,
                   mmaps, tele_mmap>>
    /\ UNCHANGED <<copy_vars, sync_vars, loop_vars, hist_vars, map_vars, call_vars, now>>

SimScoringEnd ==
    /\ scor_mmap.mVersionUpdateBegin # scor_mmap.mVersionUpdateEnd
    /\ scor_mmap' = [scor_mmap EXCEPT
                       !.mVersionUpdateEnd = scor_mmap.mVersionUpdateBegin]
    /\ UNCHANGED <<access_mode, updating, event, update_thread, caller,
                   mmaps, tele_mmap>>
    /\ UNCHANGED <<copy_vars, sync_vars, loop_vars, hist_vars, map_vars, call_vars, now>>

\* ---- time passes
AdvanceClock ==
    /\ now < MaxClock
    /\ now' = now + 1
    /\ UNCHANGED <<copy_vars, sync_vars, life_vars, loop_vars, hist_vars, map_vars, call_vars>>

\* The running loop: the mode is configured before start(), the caller
\* switches the override on and off while the loop runs, and the instance
\* is not stopped.
Next ==
    \/ (~updating /\ SetMode)
    \/ SetPlayerOverride
    \/ Start
    \/ LoopEnter
    \/ Tick
    \/ SimScoringBegin
    \/ SimScoringWrite
    \/ SimScoringEnd
    \/ AdvanceClock

Spec == Init /\ [][Next]_vars

\* ------------------------------------------------- the start/stop lifecycle
\* One caller thread configures, starts and stops the instance any number
\* of times while the simulator publishes scoring versions; a tick is taken
\* in two steps so that the stop signal can arrive inside it.
NextLife ==
    \/ SetMode
    \/ SetPlayerOverride
    \/ Start
    \/ StartRejected
    \/ StartFail
    \/ LoopEnter
    \/ TickBegin
    \/ TickEnd
    \/ LoopExit
    \/ StopSignal
    \/ StopRejected
    \/ StopJoin
    \/ StopJoinRaises
    \/ StopCopy
    \/ StopClose
    \/ SimScoringBegin
    \/ SimScoringEnd

SpecLife == Init /\ [][NextLife]_vars

\* One start() / stop() after another on an instance whose regions open,
\* with the background thread and the caller inside stop() kept running.
NextStop ==
    \/ Start
    \/ LoopEnter
    \/ TickBegin
    \/ TickEnd
    \/ LoopExit
    \/ StopSignal
    \/ StopJoin
    \/ StopCopy
    \/ StopClose
    \/ SimScoringBegin
    \/ SimScoringEnd

FairStop ==
    /\ WF_vars(LoopEnter)
    /\ WF_vars(TickEnd)
    /\ WF_vars(LoopExit)
    /\ WF_vars(StopJoin)
    /\ WF_vars(StopCopy)
    /\ WF_vars(StopClose)

SpecStop == Init /\ [][NextStop]_vars /\ FairStop

\* ------------------------------- the rebuild, one dictionary store per step
\* ---- __update_tele_indexes is entered: the for loop starts
RebuildBegin ==
    /\ step = "frame"
    /\ update_thread = "None"
    /\ rebuild_pos = -1
    /\ rebuild_pos' = 0
    /\ map_before' = tele_indexes
    /\ seen' = {}
    /\ UNCHANGED <<copy_vars, sync_vars, life_vars, loop_vars, hist_vars, call_vars, now>>

\* ---- one iteration: tele_indexes[veh_info.mID] = tele_idx
RebuildStep ==
    /\ rebuild_pos >= 0
    /\ rebuild_pos < ZipLen(tele_data)
    /\ tele_indexes' = SetTeleIndex(tele_data, tele_indexes, rebuild_pos)
    /\ rebuild_pos' = rebuild_pos + 1
    /\ UNCHANGED <<scor_data, tele_data, override_player_index, player_scor_index,
                   player_scor, player_tele, step, data_synced, prev_index>>
    /\ UNCHANGED <<map_before, seen>>
    /\ UNCHANGED <<copy_vars, life_vars, loop_vars, hist_vars, call_vars, now>>

\* ---- zip() is exhausted: __update_tele_indexes returns
RebuildEnd ==
    /\ rebuild_pos >= 0
    /\ rebuild_pos >= ZipLen(tele_data)
    /\ rebuild_pos' = -1
    /\ UNCHANGED <<map_before, seen>>
    /\ UNCHANGED <<copy_vars, sync_vars, life_vars, loop_vars, hist_vars, call_vars, now>>

\* ---- the caller's thread, while the rebuild runs: sync_tele_index(index),
\* as rf2TeleVeh(index) calls it
Lookup ==
    /\ rebuild_pos >= 0
    /\ \E index \in Slots :
          seen' = {[index |-> index,
                    result |-> SyncTeleIndex(tele_indexes, scor_data, index),
                    dict |-> tele_indexes]}
    /\ UNCHANGED <<rebuild_pos, map_before>>
    /\ UNCHANGED <<copy_vars, sync_vars, life_vars, loop_vars, hist_vars, call_vars, now>>

NextMap ==
    \/ LoadFrames
    \/ RebuildBegin
    \/ RebuildStep
    \/ RebuildEnd
    \/ Lookup

SpecMap == Init /\ [][NextMap]_vars

\* ------------------------- rebuilding the map again and again (idempotence)
\* ---- the telemetry snapshot the next rebuild reads
LoadTelemetry ==
    /\ \/ step = "frame" /\ tele_data = ZeroTelemetry
       \/ step = "again"
    /\ update_thread = "None"
    /\ rebuild_pos = -1
    /\ tele_data' \in TeleFrames
    /\ step' = "frame"
    /\ UNCHANGED <<scor_data, tele_indexes, override_player_index,
                   player_scor_index, player_scor, player_tele, data_synced,
                   prev_index>>
    /\ UNCHANGED <<copy_vars, life_vars, loop_vars, hist_vars, map_vars,
                   call_vars, now>>

\* ---- __update_tele_indexes once more on the snapshot just used
RebuildAgain ==
    /\ step = "rebuilt"
    /\ update_thread = "None"
    /\ map_before' = tele_indexes
    /\ tele_indexes' = UpdateTeleIndexes(tele_data, tele_indexes)
    /\ step' = "again"
    /\ UNCHANGED <<scor_data, tele_data, override_player_index,
                   player_scor_index, player_scor, player_tele, data_synced,
                   prev_index>>
    /\ UNCHANGED <<rebuild_pos, seen>>
    /\ UNCHANGED <<copy_vars, life_vars, loop_vars, hist_vars, call_vars, now>>

NextRebuild ==
    \/ LoadTelemetry
    \/ Rebuild
    \/ RebuildAgain

SpecRebuild == Init /\ [][NextRebuild]_vars

\* ------------- __sync_player_data line by line against the caller's setters
\* ---- the scoring snapshot the syncs read
LoadScoring ==
    /\ step = "frame"
    /\ update_thread = "None"
    /\ scor_data = ZeroScoring
    /\ scor_data' \in ScorFrames
    /\ UNCHANGED <<tele_data, tele_indexes, override_player_index,
                   player_scor_index, player_scor, player_tele, step,
                   data_synced, prev_index>>
    /\ UNCHANGED <<copy_vars, life_vars, loop_vars, hist_vars, map_vars,
                   call_vars, now>>

\* ---- "if not self.override_player_index:" and, inside it, the scan and
\* "if scor_idx == INVALID_INDEX: return False"
SyncScan ==
    /\ sync_pc = "idle"
    /\ IF override_player_index
       THEN /\ sync_pc' = "stored"
            /\ UNCHANGED <<scan_idx, data_synced>>
       ELSE /\ scan_idx' = local_scoring_index(scor_data.mVehicles)
            /\ IF local_scoring_index(scor_data.mVehicles) = INVALID_INDEX
               THEN sync_pc' = "idle" /\ data_synced' = FALSE
               ELSE sync_pc' = "scanned" /\ UNCHANGED data_synced
    /\ UNCHANGED <<scor_data, tele_data, tele_indexes, override_player_index,
                   player_scor_index, player_scor, player_tele, step,
                   prev_index>>
    /\ UNCHANGED <<threads, api, index_arg>>
    /\ UNCHANGED <<copy_vars, life_vars, loop_vars, hist_vars, map_vars, now>>

\* ---- "self.player_scor_index = scor_idx"
SyncStore ==
    /\ sync_pc = "scanned"
    /\ player_scor_index' = scan_idx
    /\ sync_pc' = "stored"
    /\ UNCHANGED <<scor_data, tele_data, tele_indexes, override_player_index,
                   player_scor, player_tele, step, data_synced, prev_index>>
    /\ UNCHANGED <<threads, api, scan_idx, index_arg>>
    /\ UNCHANGED <<copy_vars, life_vars, loop_vars, hist_vars, map_vars, now>>

\* ---- "# Set player data" and "return True"
SyncSet ==
    /\ sync_pc = "stored"
    /\ player_scor' = ScorVehicle(scor_data, player_scor_index)
    /\ player_tele' = TeleVehicle(tele_data,
                          SyncTeleIndex(tele_indexes, scor_data,
                                        player_scor_index))
    /\ data_synced' = TRUE
    /\ sync_pc' = "idle"
    /\ UNCHANGED <<scor_data, tele_data, tele_indexes, override_player_index,
                   player_scor_index, step, prev_index>>
    /\ UNCHANGED <<threads, api, scan_idx, index_arg>>
    /\ UNCHANGED <<copy_vars, life_vars, loop_vars, hist_vars, map_vars, now>>

NextRace ==
    \/ LoadScoring
    \/ SetPlayerOverride
    \/ CallSetPlayerIndex
    \/ SyncScan
    \/ SyncStore
    \/ SyncSet

SpecRace == Init /\ [][NextRace]_vars

\* ---- the simulator (external writer): Begin+1, body, End := Begin
SimBegin ==
    /\ sim_pos = 0
    /\ mmap_instance.mVersionUpdateBegin < MaxVersion
    /\ mmap_instance' = [mmap_instance EXCEPT
                           !.mVersionUpdateBegin = @ + 1]
    /\ sim_pos' = 1
    /\ UNCHANGED <<update, data, temp, copy_pos, skip_check, prev_data, last_call>>
    /\ UNCHANGED <<sync_vars, life_vars, loop_vars, hist_vars, map_vars, call_vars, now>>

SimWriteWord ==
    /\ sim_pos \in 1..BodyWords
    /\ mmap_instance' = [mmap_instance EXCEPT
                           !.body[sim_pos] = mmap_instance.mVersionUpdateBegin]
    /\ sim_pos' = sim_pos + 1
    /\ UNCHANGED <<update, data, temp, copy_pos, skip_check, prev_data, last_call>>
    /\ UNCHANGED <<sync_vars, life_vars, loop_vars, hist_vars, map_vars, call_vars, now>>

SimEnd ==
    /\ sim_pos = BodyWords + 1
    /\ mmap_instance' = [mmap_instance EXCEPT
                           !.mVersionUpdateEnd = mmap_instance.mVersionUpdateBegin]
    /\ sim_pos' = 0
    /\ UNCHANGED <<update, data, temp, copy_pos, skip_check, prev_data, last_call>>
    /\ UNCHANGED <<sync_vars, life_vars, loop_vars, hist_vars, map_vars, call_vars, now>>

\* ---- MMapControl.create(0): self.update = __buffer_copy; self.update(True)
Create ==
    /\ update = "None"
    /\ copy_pos = -1
    /\ update' = "copy"
    /\ skip_check' = TRUE
    /\ copy_pos' = 0
    /\ prev_data' = data
    /\ UNCHANGED <<mmap_instance, sim_pos, data, temp, last_call>>
    /\ UNCHANGED <<sync_vars, life_vars, loop_vars, hist_vars, map_vars, call_vars, now>>

\* ---- refresh(): self.update() with skip_check = False
Refresh ==
    /\ update = "copy"
    /\ copy_pos = -1
    /\ skip_check' = FALSE
    /\ copy_pos' = 0
    /\ prev_data' = data
    /\ UNCHANGED <<mmap_instance, sim_pos, update, data, temp, last_call>>
    /\ UNCHANGED <<sync_vars, life_vars, loop_vars, hist_vars, map_vars, call_vars, now>>

\* ---- from_buffer_copy: one word per step, lowest address first
CopyWord ==
    /\ copy_pos \in 0..LastOffset
    /\ temp' = CopyWordAt(temp, mmap_instance, copy_pos)
    /\ copy_pos' = copy_pos + 1
    /\ UNCHANGED <<mmap_instance, sim_pos, update, data, skip_check, prev_data,
                   last_call>>
    /\ UNCHANGED <<sync_vars, life_vars, loop_vars, hist_vars, map_vars, call_vars, now>>

\* ---- the version test and the assignment of self.data
CopyCheck ==
    /\ copy_pos = LastOffset + 1
    /\ data' = BufferCopy(temp, data, skip_check)
    /\ copy_pos' = -1
    /\ last_call' = IF skip_check THEN "create" ELSE "refresh"
    /\ UNCHANGED <<mmap_instance, sim_pos, update, temp, skip_check, prev_data>>
    /\ UNCHANGED <<sync_vars, life_vars, loop_vars, hist_vars, map_vars, call_vars, now>>

NextCopy ==
    \/ SimBegin
    \/ SimWriteWord
    \/ SimEnd
    \/ Create
    \/ Refresh
    \/ CopyWord
    \/ CopyCheck

SpecCopy == Init /\ [][NextCopy]_vars

\* --------------------------------------------------------------- claims
\* A snapshot whose body was written by one simulator update.
Untorn(d) == \A i \in 1..BodyWords : d.body[i] = d.body[1]

\* C1: every snapshot a Copy-mode refresh() adopts has a body written
\* entirely by one completed simulator update.
C1_RefreshAdoptsOnlyUntorn ==
    (/\ last_call = "refresh"
     /\ copy_pos = -1
     /\ temp.mVersionUpdateBegin = temp.mVersionUpdateEnd) => Untorn(data)

\* C2: refresh() replaces the held snapshot by the candidate iff the
\* candidate's Begin equals its End; otherwise the snapshot is what it was.
C2_AdoptIffConsistent ==
    (last_call = "refresh" /\ copy_pos = -1) =>
        data = IF temp.mVersionUpdateBegin = temp.mVersionUpdateEnd
               THEN temp ELSE prev_data

C2_Witness ==
    /\ last_call = "refresh"
    /\ copy_pos = -1
    /\ temp.mVersionUpdateBegin # temp.mVersionUpdateEnd
    /\ data = prev_data
    /\ data # temp

\* Slots of the current scoring snapshot whose mIsPlayer flag is set.
Flagged == {s \in Slots : scor_data.mVehicles[s].mIsPlayer}

LowestFlagged == CHOOSE s \in Flagged : \A t \in Flagged : s <= t

\* Slots among the first mNumVehicles telemetry entries that hold identifier id.
TeleSlotsOf(id) ==
    {s \in Slots : s < tele_data.mNumVehicles /\ tele_data.mVehicles[s].mID = id}

\* C8: override disabled, the flagged player's identifier among the first
\* NumVehicles telemetry entries: rebuild then syncPlayer yields the flagged
\* scoring slot and a telemetry slot that holds the same identifier.
C8_PlayerResolvedAcrossArrays ==
    (/\ step = "synced"
     /\ ~override_player_index
     /\ Flagged # {}
     /\ TeleSlotsOf(scor_data.mVehicles[LowestFlagged].mID) # {}) =>
        /\ data_synced
        /\ player_scor_index = LowestFlagged
        /\ player_scor = ScorVehicle(scor_data, LowestFlagged)
        /\ player_tele.slot \in TeleSlotsOf(player_scor.mID)
        /\ player_tele = TeleVehicle(tele_data, player_tele.slot)

\* The two arrays order the vehicles differently and the player is found.
C8_Witness ==
    /\ step = "synced"
    /\ ~override_player_index
    /\ Flagged = {1}
    /\ scor_data.mVehicles[0].mID = 0 /\ scor_data.mVehicles[1].mID = 2
    /\ tele_data.mNumVehicles = 2
    /\ tele_data.mVehicles[0].mID = 2 /\ tele_data.mVehicles[1].mID = 0
    /\ player_scor_index = 1
    /\ player_scor.mID = 2
    /\ player_tele.slot = 0
    /\ player_tele.mID = 2

\* C9: override disabled: syncPlayer stores the lowest flagged index and
\* fails exactly when no slot is flagged.
C9_LowestFlaggedIndex ==
    (step = "synced" /\ ~override_player_index) =>
        /\ data_synced <=> (Flagged # {})
        /\ data_synced => /\ player_scor_index \in Flagged
                          /\ \A s \in Flagged : player_scor_index <= s

C9_Witness ==
    /\ step = "synced"
    /\ ~override_player_index
    /\ Cardinality(Flagged) >= 2
    /\ data_synced
    /\ player_scor_index = 0
    /\ prev_index # 0

\* C10: override enabled: syncPlayer succeeds, keeps the manually set index
\* and holds the scoring element at that index, whatever the flags say.
C10_OverrideIgnoresFlags ==
    (step = "synced" /\ override_player_index) =>
        /\ data_synced
        /\ player_scor_index = prev_index
        /\ player_scor = ScorVehicle(scor_data, prev_index)

C10_Witness ==
    /\ step = "synced"
    /\ override_player_index
    /\ player_scor_index = 1
    /\ Flagged = {0}
    /\ data_synced
    /\ player_scor.slot = 1
    /\ ~player_scor.mIsPlayer

\* The scoring mVersionUpdateEnd a tick taken now would observe.
ObservedVersion == Updated(dataset_update, scor_mmap, scor_data).mVersionUpdateEnd

Running == update_thread = "waiting"

\* C3: a tick that finds the loop Active with the observed version unchanged
\* for more than 2 seconds makes it Frozen, records that version as the
\* frozen version, sets the slow poll interval and sets Paused; while the
\* version stays unchanged a Frozen loop stays Frozen and records nothing new.
C3_FreezeOnStall ==
    [][Tick =>
        /\ (/\ ~data_freezed
            /\ ObservedVersion = last_version_update
            /\ now - last_update_time > FreezeAfter) =>
               /\ data_freezed'
               /\ freezed_version' = ObservedVersion
               /\ update_delay' = DelaySlow
               /\ paused'
        /\ (data_freezed /\ ObservedVersion = freezed_version) =>
               /\ data_freezed'
               /\ freezed_version' = freezed_version
               /\ update_delay' = update_delay
               /\ paused' = paused]_vars

\* The loop froze on a stalled version after having been Active.
C3_Witness ==
    /\ Running
    /\ was_active
    /\ data_freezed
    /\ freezed_version = 1
    /\ ObservedVersion = 1
    /\ now - last_update_time > FreezeAfter
    /\ update_delay = DelaySlow
    /\ paused

\* C4: a tick that finds the loop Frozen and the observed version different
\* from the frozen version makes it Active with the fast poll interval and
\* Paused false; with the observed version equal it leaves the loop Frozen.
C4_ResumeOnChange ==
    [][Tick =>
        /\ (data_freezed /\ ObservedVersion # freezed_version) =>
               /\ ~data_freezed'
               /\ update_delay' = DelayFast
               /\ ~paused'
        /\ (data_freezed /\ ObservedVersion = freezed_version) =>
               data_freezed']_vars

\* The loop resumed from a freeze it had entered from Active.
C4_Witness ==
    /\ Running
    /\ ~data_freezed
    /\ freezed_version = 1
    /\ last_version_update = 2
    /\ update_delay = DelayFast
    /\ ~paused

\* C5 as claimed: whenever the running loop is Frozen, Paused is true.
C5_FrozenImpliesPaused ==
    (Running /\ data_freezed) => paused

\* C5, amended: whenever the running loop is Frozen and has been Active
\* since start(), Paused is true.
C5_FrozenAfterActiveImpliesPaused ==
    (Running /\ data_freezed /\ was_active) => paused

C5_Witness ==
    /\ Running
    /\ data_freezed
    /\ was_active
    /\ paused
    /\ reset_counter = 0

\* C6: once the loop is Active and its last 5 or more syncPlayer attempts
\* have all failed, Paused is true.
C6_PausedAfterFiveFailures ==
    (Running /\ ~data_freezed /\ fail_streak >= PauseTries) => paused

\* C7: every lookup a caller makes while the map is rebuilt reads either
\* the complete map as it was before the rebuild or the complete map after it.
C7_LookupsSeeOldOrNewMap ==
    \A o \in seen :
        \/ o.dict = map_before
        \/ o.dict = UpdateTeleIndexes(tele_data, map_before)

\* Every region of the dataset is mapped / every one has been closed.
AllOpen == \A a \in AccessorNames : mmaps[a].instance = "open"
AllClosed == \A a \in AccessorNames : mmaps[a].instance = "closed"

\* C11: stop() raises the signal, then waits for the thread to exit, then
\* takes the final copies, then closes the buffers; no step of a tick runs
\* once a buffer has been closed.
C11_StopOrder ==
    [][/\ StopJoin => (event /\ update_thread = "stopped")
       /\ StopCopy => (event /\ update_thread = "stopped"
                       /\ mmaps' = mmaps)
       /\ StopClose => (update_thread = "stopped" /\ caller = "closing"
                        /\ AllClosed')
       /\ (TickBegin \/ TickEnd) => (AllOpen /\ AllOpen')]_vars

\* stop() has returned from a loop that had ticked and become Active.
C11_Witness ==
    /\ api = "stopped"
    /\ caller = "idle"
    /\ AllClosed
    /\ update_thread = "stopped"
    /\ was_active

\* C12: once the signal is raised no new tick begins, and a stop() in
\* progress returns.
C12_StopTerminates ==
    /\ [][TickBegin => ~event]_vars
    /\ (caller = "joining") ~> (caller = "idle")
    /\ (caller = "joining" /\ update_thread = "ticking")
           ~> (update_thread = "stopped")

\* stop() has returned from an Active loop, and from a Frozen one.
C12_Witness ==
    /\ api = "stopped"
    /\ update_thread = "stopped"
    /\ threads = 0
    /\ ~data_freezed

\* C13: at most one background thread at any time; a thread is created only
\* on a not-started instance; start() on a started and stop() on a
\* not-started instance change nothing.
C13_AtMostOneThread ==
    /\ [](threads <= 1)
    /\ [][threads' > threads => ~updating]_vars
    /\ [][(StartRejected \/ StopRejected) =>
             UNCHANGED <<copy_vars, sync_vars, life_vars, loop_vars,
                         threads>>]_vars

\* start() was rejected while the one thread was running.
C13_Witness ==
    /\ api = "start_rejected"
    /\ threads = 1
    /\ update_thread = "waiting"
    /\ updating

\* C14: after a start() in which a region could not be opened, the
\* instance is not started and no thread runs.
C14_FailedStartLeavesNotStarted ==
    (api = "start_failed") => (~updating /\ threads = 0)

\* C15: after stop() the instance is not started and holds no thread; a
\* start() that follows a completed stop() opens the buffers in the mode
\* configured at that moment, binds .data to the mapped region (Direct)
\* or to a fresh copy (Copy),
\* syncs with the override configured at that moment and runs one thread.
C15_RestartHonoursConfiguration ==
    /\ [](api = "stopped" => (~updating /\ threads = 0 /\ AllClosed))
    /\ [][(Start /\ AllClosed) =>
             /\ threads = 0 /\ threads' = 1
             /\ AllOpen'
             /\ \A a \in {"scor", "tele"} :
                   /\ mmaps'[a].update =
                         (IF access_mode # 0 THEN "share" ELSE "copy")
                   /\ mmaps'[a].data =
                         (IF access_mode # 0 THEN "region" ELSE "copy")
             /\ override_player_index =>
                   (data_synced' /\ player_scor_index' = player_scor_index)]_vars

\* A second start(), in Direct mode, after a loop that had been Active.
C15_Witness ==
    /\ api = "started"
    /\ update_thread = "started"
    /\ was_active
    /\ mmaps["scor"].data = "region"
    /\ mmaps["tele"].data = "region"
    /\ threads = 1

\* C16: create_mmap opens scoring and telemetry in the caller's mode and
\* extended and force feedback in Direct mode; a tick leaves the extended
\* and force-feedback accessors as they are.
C16_ExtFfbAlwaysDirect ==
    [][/\ (Start \/ StartFail) =>
             \A a \in AccessorNames :
                (mmaps'[a].instance = "open" /\ mmaps[a].instance # "open") =>
                   mmaps'[a].update =
                      (IF a \in {"ext", "ffb"} \/ access_mode # 0
                       THEN "share" ELSE "copy")
       /\ TickEnd => /\ mmaps'["ext"] = mmaps["ext"]
                     /\ mmaps'["ffb"] = mmaps["ffb"]]_vars

\* Copy mode, the loop has refreshed scoring; ext and ffb are Direct.
C16_Witness ==
    /\ update_thread = "waiting"
    /\ mmaps["scor"].update = "copy"
    /\ mmaps["tele"].update = "copy"
    /\ mmaps["ext"].update = "share"
    /\ mmaps["ffb"].update = "share"
    /\ mmaps["ext"].data = "region"
    /\ scor_data.mVersionUpdateEnd >= 1

\* C17: rebuilding the map a second time from the same telemetry snapshot
\* leaves the map the first rebuild produced, whatever the map was before.
C17_RebuildIdempotent ==
    (step = "again") => (tele_indexes = map_before)

\* A second rebuild over a map that earlier snapshots have moved away from
\* the identity and that holds an entry the snapshot does not renew.
C17_Witness ==
    /\ step = "again"
    /\ tele_data.mNumVehicles = 1
    /\ tele_indexes # InitTeleIndexes
    /\ \E id \in DOMAIN tele_indexes :
          id # tele_data.mVehicles[0].mID /\ tele_indexes[id] # id
    /\ tele_indexes = map_before

\* C18: setPlayerIndex(i) stores min(max(i, -1), MAX_VEHICLES - 1): -1 for
\* an argument below -1, MAX_VEHICLES - 1 for one above it, the argument
\* itself otherwise; the stored index lies in -1 .. MAX_VEHICLES - 1.
C18_SetPlayerIndexClamps ==
    [][CallSetPlayerIndex =>
          /\ player_scor_index' \in INVALID_INDEX..(MAX_VEHICLES - 1)
          /\ \A i \in index_arg' :
                player_scor_index' =
                   (IF i < INVALID_INDEX THEN INVALID_INDEX
                    ELSE IF i > MAX_VEHICLES - 1 THEN MAX_VEHICLES - 1
                    ELSE i)]_vars

\* An argument above the last valid index has been stored as that index.
C18_Witness ==
    /\ index_arg = {MAX_VEHICLES + 1}
    /\ player_scor_index = MAX_VEHICLES - 1

\* C19: once setPlayerOverride(True) and then setPlayerIndex(i) have
\* returned, no step of __sync_player_data changes the player scoring index.
C19_OverrideKeepsManualIndex ==
    [][((SyncScan \/ SyncStore \/ SyncSet)
          /\ override_player_index /\ index_arg # {}) =>
             player_scor_index' = player_scor_index]_vars

\* C20: after a successful syncPlayer the player telemetry element carries
\* the identifier of the player scoring element.
C20_PlayerTeleMatchesScor ==
    (step = "synced" /\ data_synced) => (player_tele.mID = player_scor.mID)

\* C21: a tick of an Active loop whose syncPlayer fails (override disabled,
\* no slot of the refreshed scoring data flagged) leaves the player scoring
\* index and both stored player elements as they were.
C21_FailedSyncKeepsPlayerData ==
    [][(/\ Tick
        /\ ~data_freezed
        /\ ~override_player_index
        /\ local_scoring_index(ScorData'.mVehicles) = INVALID_INDEX) =>
           /\ ~data_synced'
           /\ player_scor_index' = player_scor_index
           /\ player_scor' = player_scor
           /\ player_tele' = player_tele]_vars

\* The last Active tick failed and the player found earlier is still held.
C21_Witness ==
    /\ Running
    /\ ~data_freezed
    /\ ~override_player_index
    /\ ~data_synced
    /\ fail_streak >= 1
    /\ local_scoring_index(ScorData.mVehicles) = INVALID_INDEX
    /\ player_scor_index # INVALID_INDEX
    /\ player_scor.mIsPlayer
    /\ player_scor.slot = player_scor_index

\* C22: a tick that begins with the loop Frozen refreshes the buffers and
\* rebuilds the map but runs no syncPlayer: the player scoring index, the
\* stored player elements, the sync result and the failure counter stay.
C22_FrozenTickSkipsSync ==
    [][(Tick /\ data_freezed) =>
           /\ scor_data' = (IF dataset_update = "share" THEN scor_data
                            ELSE BufferCopy(scor_mmap, scor_data, FALSE))
           /\ tele_indexes' = UpdateTeleIndexes(TeleData', tele_indexes)
           /\ player_scor_index' = player_scor_index
           /\ player_scor' = player_scor
           /\ player_tele' = player_tele
           /\ data_synced' = data_synced
           /\ reset_counter' = reset_counter]_vars

\* Copy mode, the loop has just resumed: the tick that resumed it read a
\* flagged player and left the failure counter and the index alone.
C22_Witness ==
    /\ Running
    /\ mmaps["scor"].update = "copy"
    /\ ~data_freezed
    /\ was_active
    /\ ~override_player_index
    /\ reset_counter >= 1
    /\ local_scoring_index(scor_data.mVehicles) # INVALID_INDEX
    /\ player_scor_index # local_scoring_index(scor_data.mVehicles)

\* The highest slot among the first mNumVehicles telemetry entries that
\* holds identifier id.
HighestTeleSlotOf(id) ==
    CHOOSE s \in TeleSlotsOf(id) : \A t \in TeleSlotsOf(id) : t <= s

\* C23: a rebuild gives every identifier found among the first mNumVehicles
\* telemetry entries (at most the array capacity) its highest slot there,
\* and leaves the entry, or the absence, of every other identifier as it was.
C23_RebuildTouchesOnlyListed ==
    [][(Rebuild \/ RebuildAgain) =>
          /\ \A id \in IDs :
                IF TeleSlotsOf(id) # {}
                THEN /\ id \in DOMAIN tele_indexes'
                     /\ tele_indexes'[id] = HighestTeleSlotOf(id)
                ELSE /\ (id \in DOMAIN tele_indexes') = (id \in DOMAIN tele_indexes)
                     /\ id \in DOMAIN tele_indexes =>
                            tele_indexes'[id] = tele_indexes[id]
          /\ DOMAIN tele_indexes' \subseteq (IDs \cup DOMAIN InitTeleIndexes)]_vars

\* A rebuild from a frame that lists one identifier twice, over a map that
\* holds an entry of a vehicle that has left and an initial identity entry.
C23_Witness ==
    /\ step = "rebuilt"
    /\ tele_data.mNumVehicles = MAX_VEHICLES + 1
    /\ \A s \in Slots : tele_data.mVehicles[s].mID = 2
    /\ tele_indexes[2] = MAX_VEHICLES - 1
    /\ tele_indexes[0] = 1
    /\ tele_indexes[1] = 1

\* create() of the Copy-mode accessor has returned.
Created0 == update = "copy" /\ last_call # "none"

\* C24 as claimed: from the return of create() on, the held snapshot is
\* initialized and its VersionUpdateBegin equals its VersionUpdateEnd.
C24_SnapshotAlwaysConsistent ==
    Created0 => /\ data.mVersionUpdateBegin \in Nat
                /\ data.mVersionUpdateBegin = data.mVersionUpdateEnd

\* C24, amended: from the return of create() on, the held snapshot is
\* initialized; a snapshot with Begin # End is held only as long as it is
\* the one create() took: no refresh() adopts one, and once Begin = End
\* holds of the held snapshot it holds from then on.
C24_SnapshotInitialized ==
    /\ [](Created0 => (data.mVersionUpdateBegin \in Nat
                        /\ data.mVersionUpdateEnd \in Nat
                        /\ DOMAIN data.body = 1..BodyWords))
    /\ [][(Created0 /\ ~skip_check /\ copy_pos = LastOffset + 1
            /\ copy_pos' = -1 /\ data' # data) =>
             data'.mVersionUpdateBegin = data'.mVersionUpdateEnd]_vars
    /\ [][(Created0 /\ data.mVersionUpdateBegin = data.mVersionUpdateEnd) =>
             data'.mVersionUpdateBegin = data'.mVersionUpdateEnd]_vars

\* create() ran while the simulator was inside an update and took a
\* snapshot with Begin # End; a later refresh() replaced it.
C24_Witness ==
    /\ last_call = "refresh"
    /\ copy_pos = -1
    /\ prev_data.mVersionUpdateBegin # prev_data.mVersionUpdateEnd
    /\ data # prev_data
    /\ data.mVersionUpdateBegin = data.mVersionUpdateEnd

\* C25: the tick that takes the loop from Frozen to Active has set
\* last_update_time to the current time, the first resume after start()
\* included; a tick takes the loop from Active to Frozen only when the
\* version it observes is the one recorded and more than 2 seconds have
\* passed since that version was recorded.
C25_ResumeStampsTime ==
    [][Tick =>
          /\ (data_freezed /\ ~data_freezed') =>
                 /\ last_update_time' = now
                 /\ last_version_update' = ObservedVersion
                 /\ last_version_update' # last_version_update
          /\ (~data_freezed /\ data_freezed') =>
                 /\ ObservedVersion = last_version_update
                 /\ last_update_time' = last_update_time
                 /\ now - last_update_time > FreezeAfter
          /\ (~data_freezed /\ ObservedVersion # last_version_update) =>
                 (last_update_time' = now /\ ~data_freezed')]_vars

\* The first resume after start() happened late, at a time more than 2
\* seconds after the initial timestamp 0, and the loop is Active.
C25_Witness ==
    /\ Running
    /\ ~data_freezed
    /\ freezed_version = 0
    /\ last_version_update # 0
    /\ last_update_time = now
    /\ now > FreezeAfter

\* C26: at every tick boundary the poll interval is the slow one exactly
\* when the loop is Frozen and the fast one exactly when it is Active; the
\* loop is entered Frozen with the slow interval.
C26_DelayFollowsFreeze ==
    (update_thread \in {"started", "waiting"}) =>
        /\ (update_delay = DelaySlow) <=> data_freezed
        /\ (update_delay = DelayFast) <=> ~data_freezed
        /\ (update_thread = "started") => data_freezed

\* The loop has been Frozen, Active and Frozen again.
C26_Witness ==
    /\ Running
    /\ was_active
    /\ data_freezed
    /\ update_delay = DelaySlow
    /\ freezed_version # 0

=============================================================================
